---- MODULE Spec2Model ----
(***************************************************************************)
(* VFE-GO: the storage scanner (Server.ScanStorage) that reconciles the    *)
(* vods table with the storage directory, and the note handlers            *)
(* (listNotes, saveNotes) that read and replace a user's notes of a vod.   *)
(*                                                                         *)
(* The catalog is the SQLite database: one set of rows per table, and the  *)
(* AUTOINCREMENT counters of sqlite_sequence.  No statement reads the id   *)
(* of a note, so the notes table is the bag of its rows without the id.    *)
(* A path is kept as its directory segments and its file name, a file name *)
(* as stem and extension, so that strings.Split(rel, "/") is the segments  *)
(* followed by the name.                                                   *)
(*                                                                         *)
(* Spec is the life of the process: main scans the storage at every start, *)
(* and the tree changes while it serves.  SpecNotes is a serving process   *)
(* whose note handlers run concurrently, one step per database statement.  *)
(***************************************************************************)
EXTENDS Integers, Sequences, FiniteSets, Bags, TLC

\* ----------------------------------------------------------------- bounds
\* The scan stops adding recordings once sqlite_sequence of vods is here.
MaxVodId == 3

\* The clock counts ticks; this many make a second.
TicksPerSecond == 2

\* How many ticks around the start and around the expiry are told apart.
MaxSkew == 3

\* The tokens the clients hold at one time.
MaxTokens == 2

\* addNote stops adding notes once the table holds this many.
MaxNotes == 2

\* The edits a browser makes on a notes panel before it is opened again.
MaxEdits == 2

\* The cards a notes panel holds at most.
MaxCards == 2

\* ------------------------------------------------------- paths and names
FileName(stem, ext) == [stem |-> stem, ext |-> ext]

Path(dirs, name) == [dirs |-> dirs, name |-> name]

Entry(dirs, name, isDir) == [path |-> Path(dirs, name), isDir |-> isDir]

\* strings.Split(rel, "/"): the number of parts, and part i (0-based) when it
\* is a directory segment.
NumParts(path) == Len(path.dirs) + 1

Part(path, i) == path.dirs[i + 1]

\* strings.ToLower on the extensions that occur.
ToLower(ext) ==
    CASE ext = "MP4" -> "mp4"
      [] ext = "TXT" -> "txt"
      [] OTHER -> ext

\* strings.HasSuffix(strings.ToLower(info.Name()), ".mp4")
IsVideo(name) == ToLower(name.ext) = "mp4"

VodsDir(team, player) == <<"storage", "teams", team, "players", player, "vods">>

\* The entries the storage tree can hold, in the lexical order in which
\* filepath.Walk visits them.
WalkOrder ==
    << Entry(<<"storage", "a", "sample-team", "c", "P">>, FileName("e", "mp4"), FALSE),
       Entry(VodsDir("T", "P"), FileName("G", "MP4"), FALSE),
       Entry(<<"storage", "teams", "sample-team", "players", "sample-player">>,
             FileName("vods", ""), TRUE),
       Entry(VodsDir("sample-team", "sample-player"), FileName("f", "mp4"), FALSE),
       Entry(VodsDir("sample-team", "sample-player"), FileName("notes", "txt"), FALSE),
       Entry(<<"storage">>, FileName("x", "mp4"), FALSE) >>

DiskUniverse == {WalkOrder[i] : i \in 1..Len(WalkOrder)}

\* setup.go creates storage/teams/sample-team/players/sample-player/vods.
SetupDirs == {e \in DiskUniverse : e.isDir}

\* What the operator drops into the tree or takes out of it.
Files == DiskUniverse \ SetupDirs

RECURSIVE FilterSeq(_, _)
FilterSeq(s, keep) ==
    IF s = <<>> THEN <<>>
    ELSE IF Head(s) \in keep THEN <<Head(s)>> \o FilterSeq(Tail(s), keep)
    ELSE FilterSeq(Tail(s), keep)

\* filepath.Walk("storage", ...): the entries on disk, in lexical order.
Walk(d) == FilterSeq(WalkOrder, d)

\* ---------------------------------------------------------------- state
VARIABLES
    disk,         \* the entries under storage/
    teams,        \* rows of teams: [id, name]
    players,      \* rows of players: [id, team_id, name]
    vods,         \* rows of vods: [id, player_id, file_path, title]
    notes,        \* rows of notes, a bag of [vod_id, user_id, ts_seconds, content]
    users,        \* rows of users: [id, username, role]
    seq,          \* sqlite_sequence: the last id given out, per table
    phase,        \* "scan" while main is in ScanStorage, then "serve"
    walkQueue,    \* entries filepath.Walk has still to visit
    filesOnDisk,  \* the map filesOnDisk of ScanStorage
    scanResult,   \* what the last ScanStorage returned: "none", "ok", "err"
    scanMuts,     \* the catalog mutations of the last step of the scan, in order
    treeFresh,    \* no file appeared or disappeared since the last scan started
    rescan,       \* this scan started from the catalog and tree a scan that
                  \* returned nil left behind
    reqs,         \* the requests being handled, one per handler goroutine
    writer,       \* the request whose transaction holds SQLite's write lock, or 0
    lastCommit,   \* the request whose saveNotes committed last, or 0
    now,          \* the wall clock, in ticks of 1/TicksPerSecond second
    tokens,       \* the tokens login has issued and the clients hold
    page          \* the notes panel a browser has open: recording, cards, token

scanVars == <<phase, walkQueue, filesOnDisk, scanResult, scanMuts, treeFresh, rescan>>
catalogVars == <<teams, players, vods, notes, users, seq>>
reqVars == <<reqs, writer, lastCommit>>
authVars == <<now, tokens>>
vars == <<disk, teams, players, vods, notes, users, seq, phase, walkQueue, filesOnDisk,
          scanResult, scanMuts, treeFresh, rescan, reqs, writer, lastCommit, now, tokens,
          page>>

\* ------------------------------------------------------------ the schema
\* The rows of a table (a bag) that lie in the set keep (a WHERE clause).
KeepRows(b, keep) == [n \in BagToSet(b) \cap keep |-> b[n]]

\* PRAGMA foreign_keys is a per-connection setting that SQLite leaves off;
\* main opens the database without it, so ON DELETE CASCADE is not applied.
ForeignKeys == FALSE

\* Mutant: the player of the recording is deleted with it.
DeleteVodAndPlayer(cat, id) ==
    LET owners == {v.player_id : v \in {w \in cat.vods : w.id = id}}
    IN  [cat EXCEPT !.vods = {v \in cat.vods : v.id # id},
                    !.players = {p \in cat.players : p.id \notin owners}]

\* DELETE FROM vods WHERE id = ?, with the cascade of the schema when the
\* connection enforces foreign keys.
DeleteVod(cat, id) ==
    [cat EXCEPT !.vods = {v \in cat.vods : v.id # id},
                !.notes = IF ForeignKeys THEN KeepRows(cat.notes, {n \in BagToSet(cat.notes) : n.vod_id # id})
                          ELSE cat.notes]

\* ---------------------------------------------------------- ScanStorage
FailPoints == {"none", "walk", "teamSelect", "teamInsert", "playerSelect",
               "playerInsert", "vodCount", "vodInsert"}

Mut(op, table, id) == [op |-> op, table |-> table, id |-> id]

\* Get or create team: the catalog after it, the team id, and the error.
GetOrCreateTeam(cat, teamName, failAt) ==
    LET found == {t \in cat.teams : t.name = teamName}
        id == cat.seq.teams + 1
    IN  IF failAt = "teamSelect" THEN [cat |-> cat, id |-> 0, err |-> TRUE, muts |-> <<>>]
        ELSE IF found # {} THEN
            [cat |-> cat, id |-> (CHOOSE t \in found : TRUE).id, err |-> FALSE, muts |-> <<>>]
        ELSE IF failAt = "teamInsert" THEN [cat |-> cat, id |-> 0, err |-> TRUE, muts |-> <<>>]
        ELSE [cat |-> [cat EXCEPT !.teams = @ \cup {[id |-> id, name |-> teamName]},
                                  !.seq.teams = id],
              id |-> id, err |-> FALSE, muts |-> <<Mut("insert", "teams", id)>>]

\* Mutant: the player is looked up by name alone, whatever its team.
GetOrCreatePlayerAnyTeam(cat, playerName, teamID, failAt) ==
    LET found == {p \in cat.players : p.name = playerName}
        id == cat.seq.players + 1
    IN  IF failAt = "playerSelect" THEN [cat |-> cat, id |-> 0, err |-> TRUE, muts |-> <<>>]
        ELSE IF found # {} THEN
            [cat |-> cat, id |-> (CHOOSE p \in found : TRUE).id, err |-> FALSE, muts |-> <<>>]
        ELSE IF failAt = "playerInsert" THEN [cat |-> cat, id |-> 0, err |-> TRUE, muts |-> <<>>]
        ELSE [cat |-> [cat EXCEPT !.players = @ \cup {[id |-> id, team_id |-> teamID,
                                                       name |-> playerName]},
                                  !.seq.players = id],
              id |-> id, err |-> FALSE, muts |-> <<Mut("insert", "players", id)>>]

\* Get or create player.
GetOrCreatePlayer(cat, playerName, teamID, failAt) ==
    LET found == {p \in cat.players : p.name = playerName /\ p.team_id = teamID}
        id == cat.seq.players + 1
    IN  IF failAt = "playerSelect" THEN [cat |-> cat, id |-> 0, err |-> TRUE, muts |-> <<>>]
        ELSE IF found # {} THEN
            [cat |-> cat, id |-> (CHOOSE p \in found : TRUE).id, err |-> FALSE, muts |-> <<>>]
        ELSE IF failAt = "playerInsert" THEN [cat |-> cat, id |-> 0, err |-> TRUE, muts |-> <<>>]
        ELSE [cat |-> [cat EXCEPT !.players = @ \cup {[id |-> id, team_id |-> teamID,
                                                       name |-> playerName]},
                                  !.seq.players = id],
              id |-> id, err |-> FALSE, muts |-> <<Mut("insert", "players", id)>>]

\* Mutant: the row is inserted without the COUNT.
EnsureVodAlways(cat, rel, title, playerID, failAt) ==
    LET id == cat.seq.vods + 1
    IN  IF failAt \in {"vodCount", "vodInsert"} THEN [cat |-> cat, err |-> TRUE, muts |-> <<>>]
        ELSE [cat |-> [cat EXCEPT !.vods = @ \cup {[id |-> id, player_id |-> playerID,
                                                    file_path |-> rel, title |-> title]},
                                  !.seq.vods = id],
              err |-> FALSE, muts |-> <<Mut("insert", "vods", id)>>]

\* Check if VOD exists, insert it when it does not.
EnsureVod(cat, rel, title, playerID, failAt) ==
    LET count == Cardinality({v \in cat.vods : v.file_path = rel})
        id == cat.seq.vods + 1
    IN  IF failAt = "vodCount" THEN [cat |-> cat, err |-> TRUE, muts |-> <<>>]
        ELSE IF count # 0 THEN [cat |-> cat, err |-> FALSE, muts |-> <<>>]
        ELSE IF failAt = "vodInsert" THEN [cat |-> cat, err |-> TRUE, muts |-> <<>>]
        ELSE [cat |-> [cat EXCEPT !.vods = @ \cup {[id |-> id, player_id |-> playerID,
                                                    file_path |-> rel, title |-> title]},
                                  !.seq.vods = id],
              err |-> FALSE, muts |-> <<Mut("insert", "vods", id)>>]

\* The entry is a directory or not a video: the callback returns at once.
Ignored(e) == e.isDir \/ ~IsVideo(e.path.name)

\* len(parts) < 6: "Skipping invalid path".
MinParts == 6

Skipped(e) == NumParts(e.path) < MinParts

\* The callback of filepath.Walk on one entry: the catalog after it, whether
\* the path was recorded in filesOnDisk, the mutations made and the error.
VisitEntry(cat, e, failAt) ==
    IF failAt = "walk" THEN [cat |-> cat, onDisk |-> FALSE, err |-> TRUE, muts |-> <<>>]
    ELSE IF Ignored(e) THEN [cat |-> cat, onDisk |-> FALSE, err |-> FALSE, muts |-> <<>>]
    ELSE IF Skipped(e) THEN [cat |-> cat, onDisk |-> TRUE, err |-> FALSE, muts |-> <<>>]
    ELSE
        LET teamName == Part(e.path, 2)
            playerName == Part(e.path, 4)
            t == GetOrCreateTeam(cat, teamName, failAt)
            p == GetOrCreatePlayer(t.cat, playerName, t.id, failAt)
            v == EnsureVod(p.cat, e.path, e.path.name, p.id, failAt)
        IN  IF t.err THEN [cat |-> t.cat, onDisk |-> TRUE, err |-> TRUE, muts |-> t.muts]
            ELSE IF p.err THEN [cat |-> p.cat, onDisk |-> TRUE, err |-> TRUE,
                                muts |-> t.muts \o p.muts]
            ELSE [cat |-> v.cat, onDisk |-> TRUE, err |-> v.err,
                  muts |-> t.muts \o p.muts \o v.muts]

Catalog ==
    [teams |-> teams, players |-> players, vods |-> vods, notes |-> notes,
     users |-> users, seq |-> seq]

SetCatalog(cat) ==
    /\ teams' = cat.teams
    /\ players' = cat.players
    /\ vods' = cat.vods
    /\ notes' = cat.notes
    /\ users' = cat.users
    /\ seq' = cat.seq

RECURSIVE DeleteAll(_, _)
DeleteAll(cat, ids) ==
    IF ids = {} THEN cat
    ELSE LET id == CHOOSE i \in ids : \A j \in ids : i <= j
         IN  DeleteAll(DeleteVod(cat, id), ids \ {id})

RECURSIVE SetToSeq(_)
SetToSeq(ids) ==
    IF ids = {} THEN <<>>
    ELSE LET id == CHOOSE i \in ids : \A j \in ids : i <= j
         IN  <<id>> \o SetToSeq(ids \ {id})

DeleteMuts(ids) == [i \in 1..Cardinality(ids) |-> Mut("delete", "vods", SetToSeq(ids)[i])]

\* Remove missing files: every row of vods whose path is not in filesOnDisk is
\* deleted; the result of that Exec is dropped, so a DELETE that fails (the
\* rows in `failed`) leaves its row behind and the scan goes on.
RemoveMissing(cat, onDisk, failed) ==
    LET stale == {v.id : v \in {w \in cat.vods : w.file_path \notin onDisk}}
        gone == stale \ failed
    IN  [cat |-> DeleteAll(cat, gone), muts |-> DeleteMuts(gone)]

\* Mutant: the error of the walk is dropped and the removal phase runs on
\* the paths seen so far.
WalkFailedRemoves(cat, onDisk) == RemoveMissing(cat, onDisk, {}).cat

\* if err != nil { return err } after filepath.Walk: the catalog stays as the
\* callbacks left it.
WalkFailed(cat, onDisk) == cat

\* One step of the walk: the callback on the next entry.  An error ends
\* ScanStorage, and main goes on to serve.
ScanVisit ==
    /\ phase = "scan"
    /\ walkQueue # <<>>
    /\ \E failAt \in FailPoints :
        LET r == VisitEntry(Catalog, Head(walkQueue), failAt)
        IN  /\ r.cat.seq.vods <= MaxVodId
            /\ SetCatalog(IF r.err THEN WalkFailed(r.cat, filesOnDisk) ELSE r.cat)
            /\ scanMuts' = r.muts
            /\ IF r.err
               THEN /\ phase' = "serve"
                    /\ scanResult' = "err"
                    /\ walkQueue' = <<>>
                    /\ filesOnDisk' = {}
               ELSE /\ phase' = "scan"
                    /\ scanResult' = scanResult
                    /\ walkQueue' = Tail(walkQueue)
                    /\ filesOnDisk' = IF r.onDisk THEN filesOnDisk \cup {Head(walkQueue).path}
                                      ELSE filesOnDisk
    /\ UNCHANGED <<disk, treeFresh, rescan, reqVars, authVars, page>>

\* The walk is over: the removal phase, then ScanStorage returns nil; or the
\* SELECT of the removal phase fails and ScanStorage returns that error.
ScanRemove ==
    /\ phase = "scan"
    /\ walkQueue = <<>>
    /\ \/ \E failed \in SUBSET {v.id : v \in vods} :
            LET r == RemoveMissing(Catalog, filesOnDisk, failed)
            IN  /\ SetCatalog(r.cat)
                /\ scanMuts' = r.muts
                /\ scanResult' = "ok"
       \/ /\ scanResult' = "err"
          /\ scanMuts' = <<>>
          /\ UNCHANGED <<catalogVars>>
    /\ phase' = "serve"
    /\ filesOnDisk' = {}
    /\ UNCHANGED <<disk, walkQueue, treeFresh, rescan, reqVars, authVars, page>>

\* The process is started again: main runs ScanStorage before it serves.
Restart ==
    /\ phase = "serve"
    /\ \A r \in DOMAIN reqs : reqs[r].pc = "idle"
    /\ phase' = "scan"
    /\ walkQueue' = Walk(disk)
    /\ filesOnDisk' = {}
    /\ scanMuts' = <<>>
    /\ rescan' = (scanResult = "ok" /\ treeFresh)
    /\ treeFresh' = TRUE
    /\ UNCHANGED <<disk, catalogVars, scanResult, reqVars, authVars, page>>

\* A file or directory is put under storage/, or taken away, by the operator.
DiskChange ==
    /\ phase = "serve"
    /\ \E e \in Files :
        disk' = IF e \in disk THEN disk \ {e} ELSE disk \cup {e}
    /\ treeFresh' = FALSE
    /\ UNCHANGED <<catalogVars, phase, walkQueue, filesOnDisk, scanResult, scanMuts, rescan,
                   reqVars, authVars, page>>


\* ------------------------------------------------------------ the notes
NoteRow(vod, user, ts, content) ==
    [vod_id |-> vod, user_id |-> user, ts_seconds |-> ts, content |-> content]

Item(ts, content) == [ts_seconds |-> ts, content |-> content]

\* strings.TrimSpace on the contents and names that occur.
TrimSpace(content) ==
    CASE content \in {"", " ", "  "} -> ""
      [] content = " ok " -> "ok"
      [] content = " T " -> "T"
      [] content = " P " -> "P"
      [] OTHER -> content

\* Mutant: only the empty string counts as blank.
IsBlankEmptyOnly(content) == content = ""

IsBlank(content) == TrimSpace(content) = ""

\* The bodies of POST /api/notes that the clients send: an empty list, and
\* a blank note followed by two notes.
NoteLists ==
    { <<>>,
      <<Item(0, "  "), Item(5, "ok"), Item(7, " ok ")>> }

\* Mutant: DELETE FROM notes WHERE vod_id = ?, every author's notes.
ExecDeleteNotesOfVod(db, vod, user) == KeepRows(db, {n \in BagToSet(db) : n.vod_id # vod})

\* Mutant: the DELETE matches no row, so a replace appends.
ExecDeleteNothing(db, vod, user) == db

\* Mutant: DELETE FROM notes WHERE user_id = ?, on every recording.
ExecDeleteNotesOfUser(db, vod, user) == KeepRows(db, {n \in BagToSet(db) : n.user_id # user})

\* DELETE FROM notes WHERE vod_id = ? AND user_id = ?
ExecDeleteNotes(db, vod, user) ==
    KeepRows(db, {n \in BagToSet(db) : ~(n.vod_id = vod /\ n.user_id = user)})

\* Mutant: the content is stored trimmed.
ExecInsertNoteTrimmed(db, vod, user, item) ==
    db (+) SetToBag({NoteRow(vod, user, item.ts_seconds, TrimSpace(item.content))})

\* INSERT INTO notes (vod_id, user_id, ts_seconds, content) VALUES (?, ?, ?, ?)
ExecInsertNote(db, vod, user, item) ==
    db (+) SetToBag({NoteRow(vod, user, item.ts_seconds, item.content)})

\* Mutant: the statement ran on the database handle, outside a transaction.
AfterTxStatementDirty(committed, tx) == tx

\* What the other connections read after a statement that ran in a
\* transaction: the committed table, not the transaction's own copy.
AfterTxStatement(committed, tx) == committed

\* Mutant: the handler's error path keeps what the transaction wrote.
AfterRollbackKeeps(committed, tx) == tx

\* tx.Rollback(): the committed table stays as it was.
AfterRollback(committed, tx) == committed

\* Mutant: Commit returns nil and the writes of the transaction are lost.
AfterCommitLost(committed, tx) == committed

\* tx.Commit(): the transaction's copy becomes the committed table.
AfterCommit(committed, tx) == tx

\* The rows of one vod, and of one (vod, user) pair.
VodNotes(db, vod) == KeepRows(db, {n \in BagToSet(db) : n.vod_id = vod})

PairNotes(db, vod, user) == KeepRows(db, {n \in BagToSet(db) : n.vod_id = vod /\ n.user_id = user})

\* The Note values of listNotes: ts_seconds and content, without the author.
RECURSIVE ProjectRows(_)
ProjectRows(b) ==
    IF BagToSet(b) = {} THEN EmptyBag
    ELSE LET n == CHOOSE m \in BagToSet(b) : TRUE
             rest == [m \in BagToSet(b) \ {n} |-> b[m]]
         IN  ProjectRows(rest) (+) [x \in {Item(n.ts_seconds, n.content)} |-> b[n]]

\* ORDER BY ts_seconds: every order of the rows that is ascending in
\* ts_seconds (SQL leaves the order of equal keys open).
RECURSIVE Orderings(_)
Orderings(b) ==
    IF BagToSet(b) = {} THEN {<<>>}
    ELSE LET first == {n \in BagToSet(b) : \A m \in BagToSet(b) : n.ts_seconds <= m.ts_seconds}
         IN  UNION {{<<n>> \o s : s \in Orderings(b (-) SetToBag({n}))} : n \in first}

RECURSIVE SeqToBag(_)
SeqToBag(s) == IF s = <<>> THEN EmptyBag ELSE SetToBag({Head(s)}) (+) SeqToBag(Tail(s))

\* ------------------------------------------------------ the session gate
\* bcrypt: the hash of a password, and CompareHashAndPassword.
Hash(password) == <<"bcrypt", password>>

CompareHashAndPassword(hash, password) == hash = Hash(password)

\* cfg.JWTSecret, decoded; and a key the server does not hold.
JwtKey == "jwtKey"

OtherKey == "otherKey"

\* A token string: one that parses as a JWT, with the claims sub, role, usr
\* and exp and the key it was signed with, or one that does not parse.
Token(sub, role, usr, exp, key) ==
    [wellFormed |-> TRUE, sub |-> sub, role |-> role, usr |-> usr, exp |-> exp, key |-> key]

Garbage == [wellFormed |-> FALSE, sub |-> 0, role |-> "", usr |-> "", exp |-> 0, key |-> ""]

\* The Authorization header: its scheme prefix and the rest.
Header(scheme, token) == [scheme |-> scheme, token |-> token]

NoHeader == Header("", Garbage)

\* 24 * time.Hour, in seconds.
DaySeconds == 86400

DayTicks == DaySeconds * TicksPerSecond

\* time.Time.Unix(): the whole seconds of an instant.
Unix(t) == t \div TicksPerSecond

\* time.Now().Add(24 * time.Hour).Unix()
Expiry(t) == Unix(t + DayTicks)

\* Mutant: the expiry keeps the fraction of the second (exp counted in ticks).
MintNoTruncation(user, t) ==
    Token(user.id, user.role, user.username, t + DayTicks, JwtKey)

\* The token login signs for a user at instant t.
Mint(user, t) == Token(user.id, user.role, user.username, Expiry(t), JwtKey)

\* Mutant: the expiry is not looked at.
NotExpiredEver(token, t) == TRUE

\* jwt/v5 validator: exp is a NumericDate in seconds, and the token is
\* valid while now.Before(exp).
NotExpired(token, t) == t < token.exp * TicksPerSecond

\* Mutant: the signature is not verified against the server's key.
ValidSignatureAny(token) == TRUE

\* HMAC-SHA256 verification with s.jwtKey.
ValidSignature(token) == token.key = JwtKey

Denied(body) == [status |-> 401, body |-> body, id |-> 0, role |-> ""]

\* Mutant: the gate puts the id of the first user into the context, not
\* the subject of the token.
AuthFirstUser(hdr, t) ==
    IF hdr.scheme # "Bearer" THEN Denied("missing bearer")
    ELSE IF ~hdr.token.wellFormed \/ ~ValidSignature(hdr.token) \/ ~NotExpired(hdr.token, t)
         THEN Denied("invalid token")
    ELSE [status |-> 200, body |-> "", id |-> 1, role |-> hdr.token.role]

\* Server.auth: the response of the gate, or the user id and role it puts
\* into the request's context.
Auth(hdr, t) ==
    IF hdr.scheme # "Bearer" THEN Denied("missing bearer")
    ELSE IF ~hdr.token.wellFormed \/ ~ValidSignature(hdr.token) \/ ~NotExpired(hdr.token, t)
         THEN Denied("invalid token")
    ELSE [status |-> 200, body |-> "", id |-> hdr.token.sub, role |-> hdr.token.role]

\* A token signed with another key that claims to be the admin, for ever.
Forged == Token(1, "admin", "admin", 3 * DaySeconds, OtherKey)

\* The headers a client sends: none, another scheme, a string that is no
\* JWT, a forged token, or a token it got from login.
Headers ==
    {NoHeader, Header("Basic", Garbage), Header("Bearer", Garbage), Header("Bearer", Forged)}
        \cup {Header("Bearer", t) : t \in tokens}

\* The instants the clock shows: around the start, and around a day later.
Instants == (0..MaxSkew) \cup ((DayTicks - 1)..(DayTicks + MaxSkew))

Request(route, method) == [route |-> route, method |-> method]

\* No notes panel is open in the browser.
NoPage == [vod |-> 0, cards |-> <<>>, hdr |-> NoHeader, edits |-> 0]

Idle ==
    [op |-> "none", pc |-> "idle", user |-> 0, vod |-> 0, items |-> <<>>, idx |-> 0,
     tx |-> EmptyBag, old |-> EmptyBag, conc |-> FALSE, status |-> 0, body |-> "",
     route |-> "", method |-> "", hdr |-> NoHeader, role |-> "", arg |-> <<>>]

\* Mutant: the listener is up while the scan still runs.
ServingAtOnce == TRUE

\* main calls ScanStorage, and ListenAndServe after it has returned.
Serving == phase = "serve"

\* The user the auth gate put into the request's context.
Callers == {u.id : u \in users}

\* The vod ids a client names: those of the catalog (foreign keys are off,
\* so nothing checks the id).
VodIds == {v.id : v \in vods}

InFlight(q) == reqs[q].op = "save" /\ reqs[q].pc \in {"delete", "insert", "commit"}

SamePair(q, vod, user) == reqs[q].vod = vod /\ reqs[q].user = user

\* Another transaction holds the write lock: SQLITE_BUSY.
Busy(r) == writer \notin {0, r}

\* http.Error or writeJSON: the status and the message of the response.
Respond(r, status, body) ==
    [reqs[r] EXCEPT !.pc = "done", !.status = status, !.body = body, !.idx = 0,
                    !.tx = EmptyBag, !.old = EmptyBag]

\* json.NewEncoder(w).Encode of a slice the handler declared with var and
\* appended the rows to: a slice nothing was appended to is nil, and encodes
\* as null.
JsonNull == [json |-> "null", items |-> <<>>]

JsonArray(rows) == [json |-> "array", items |-> rows]

\* Mutant: the slice is made empty, not nil.
EncodeSliceNeverNil(rows) == JsonArray(rows)

EncodeSlice(rows) == IF rows = <<>> THEN JsonNull ELSE JsonArray(rows)

\* A request arrives at a route that main wrapped in s.auth: the gate answers
\* 401, or calls the handler with the user id and role of the token.
ArriveAt(r, requests) ==
    /\ Serving
    /\ reqs[r].pc = "idle"
    /\ \E q \in requests, hdr \in Headers :
        LET g == Auth(hdr, now)
            req == [Idle EXCEPT !.route = q.route, !.method = q.method, !.hdr = hdr]
        IN  reqs' = [reqs EXCEPT ![r] =
                IF g.status = 200
                THEN [req EXCEPT !.pc = "handler", !.user = g.id, !.role = g.role]
                ELSE [req EXCEPT !.pc = "done", !.status = g.status, !.body = g.body]]
    /\ UNCHANGED <<disk, catalogVars, scanVars, writer, lastCommit, authVars, page>>

\* The gate has called the handler of this route and method.
In(r, route, method) ==
    reqs[r].pc = "handler" /\ reqs[r].route = route /\ reqs[r].method = method

\* GET /api/notes?vod_id=...: one SELECT, read from the committed table.
ListNotes(r) ==
    /\ In(r, "/api/notes", "GET")
    /\ \E vod \in VodIds \cup {0} :
        LET req == [reqs[r] EXCEPT !.op = "list", !.vod = vod]
        IN  \/ /\ vod = 0                         \* missing vod_id
               /\ reqs' = [reqs EXCEPT ![r] = [req EXCEPT !.pc = "done", !.status = 400,
                                                        !.body = "missing vod_id"]]
            \/ /\ vod # 0                         \* db error
               /\ reqs' = [reqs EXCEPT ![r] = [req EXCEPT !.pc = "done", !.status = 500,
                                                        !.body = "db error"]]
            \/ /\ vod # 0
               /\ \E rows \in Orderings(ProjectRows(VodNotes(notes, vod))) :
                    reqs' = [reqs EXCEPT ![r] = [req EXCEPT !.pc = "done", !.status = 200,
                                                             !.body = EncodeSlice(rows)]]
    /\ UNCHANGED <<disk, catalogVars, scanVars, writer, lastCommit, authVars, page>>

\* The body of POST /api/notes: the one the browser's saveNotes sent with
\* the request, or one of the bodies other clients send.
SaveBodies(r) ==
    IF reqs[r].arg # <<>> THEN {reqs[r].arg[1]}
    ELSE {[vod_id |-> vod, notes |-> items] : vod \in VodIds, items \in NoteLists}

\* POST /api/notes: the body is decoded and the transaction begun.
SaveBegin(r) ==
    /\ In(r, "/api/notes", "POST")
    /\ \E user \in {reqs[r].user}, b \in SaveBodies(r) :
        LET vod == b.vod_id
            items == b.notes
            conc == \E q \in DOMAIN reqs : q # r /\ InFlight(q) /\ SamePair(q, vod, user)
            req == [reqs[r] EXCEPT !.op = "save", !.vod = vod, !.items = items,
                                   !.conc = conc]
        IN  \/ reqs' = [q \in DOMAIN reqs |->
                          IF q = r THEN [req EXCEPT !.pc = "delete"]
                          ELSE IF InFlight(q) /\ SamePair(q, vod, user)
                               THEN [reqs[q] EXCEPT !.conc = TRUE]
                          ELSE reqs[q]]
            \/ reqs' = [reqs EXCEPT ![r] = [req EXCEPT !.pc = "done", !.status = 500,
                                                       !.body = "db error", !.conc = FALSE]]
    /\ lastCommit' = IF lastCommit = r THEN 0 ELSE lastCommit
    /\ UNCHANGED <<disk, catalogVars, scanVars, writer, authVars, page>>

\* Mutant: the loop does not skip blank notes.
NextItemNoSkip(items, i) == i

\* The loop over body.Notes skips the notes whose content is blank: the
\* index of the next note it inserts, from i on (Len(items) + 1 when none).
RECURSIVE NextItem(_, _)
NextItem(items, i) ==
    IF i > Len(items) THEN i
    ELSE IF IsBlank(items[i].content) THEN NextItem(items, i + 1)
    ELSE i

\* Where the handler stands once it has reached index i of body.Notes.
AtItem(req, i) ==
    [req EXCEPT !.idx = i, !.pc = IF i > Len(req.items) THEN "commit" ELSE "insert"]

\* tx.Exec(DELETE ...): takes the write lock; an error ends the handler and
\* the deferred Rollback runs.
SaveDelete(r) ==
    /\ reqs[r].op = "save" /\ reqs[r].pc = "delete"
    /\ \/ /\ ~Busy(r)
          /\ LET tx == ExecDeleteNotes(notes, reqs[r].vod, reqs[r].user)
                 req == [reqs[r] EXCEPT !.tx = tx, !.old = VodNotes(notes, reqs[r].vod)]
             IN  /\ reqs' = [reqs EXCEPT ![r] = AtItem(req, NextItem(req.items, 1))]
                 /\ notes' = AfterTxStatement(notes, tx)
          /\ writer' = r
       \/ /\ reqs' = [reqs EXCEPT ![r] = Respond(r, 500, "delete error")]
          /\ notes' = AfterRollback(notes, reqs[r].tx)
          /\ writer' = writer
    /\ UNCHANGED <<disk, teams, players, vods, users, seq, scanVars, lastCommit, authVars, page>>

\* tx.Exec(INSERT ...) of the next note that is not blank.
SaveInsert(r) ==
    /\ reqs[r].op = "save" /\ reqs[r].pc = "insert"
    /\ LET i == reqs[r].idx
           items == reqs[r].items
       IN  \/ /\ LET tx == ExecInsertNote(reqs[r].tx, reqs[r].vod, reqs[r].user, items[i])
                     req == [reqs[r] EXCEPT !.tx = tx]
                 IN  /\ reqs' = [reqs EXCEPT ![r] = AtItem(req, NextItem(items, i + 1))]
                     /\ notes' = AfterTxStatement(notes, tx)
              /\ writer' = writer
           \/ /\ reqs' = [reqs EXCEPT ![r] = Respond(r, 500, "insert error")]
              /\ notes' = AfterRollback(notes, reqs[r].tx)
              /\ writer' = 0
    /\ UNCHANGED <<disk, teams, players, vods, users, seq, scanVars, lastCommit, authVars, page>>

\* tx.Commit()
SaveCommit(r) ==
    /\ reqs[r].op = "save" /\ reqs[r].pc = "commit"
    /\ \/ /\ reqs' = [reqs EXCEPT ![r] = Respond(r, 200, "saved")]
          /\ notes' = AfterCommit(notes, reqs[r].tx)
          /\ lastCommit' = r
       \/ /\ reqs' = [reqs EXCEPT ![r] = Respond(r, 500, "commit error")]
          /\ notes' = AfterRollback(notes, reqs[r].tx)
          /\ lastCommit' = lastCommit
    /\ writer' = 0
    /\ UNCHANGED <<disk, teams, players, vods, users, seq, scanVars, authVars, page>>

\* The response has been written; the goroutine ends.
Finish(r) ==
    /\ reqs[r].pc = "done"
    /\ reqs' = [reqs EXCEPT ![r] = Idle]
    /\ lastCommit' = IF lastCommit = r THEN 0 ELSE lastCommit
    /\ UNCHANGED <<disk, catalogVars, scanVars, writer, authVars, page>>

\* ------------------------------------------------ the browser (app.js)
\* formatTimestamp: the minutes and seconds of the header of a card.
FormatTimestamp(seconds) == [m |-> seconds \div 60, s |-> seconds % 60]

\* parseTimestampToSeconds
ParseTimestampToSeconds(t) == t.m * 60 + t.s

\* The client reads the response of listNotes: an array, or nothing.
ClientNotes(body) == IF body.json = "array" THEN body.items ELSE <<>>

\* renderNote: the card of a note, its header and its textarea.
RenderNote(note) == [time |-> FormatTimestamp(note.ts_seconds), text |-> note.content]

RenderNotes(items) == [i \in 1..Len(items) |-> RenderNote(items[i])]

\* saveNotes of app.js reads the notes back from the cards of the panel.
CardNotes(cards) ==
    [i \in 1..Len(cards) |-> Item(ParseTimestampToSeconds(cards[i].time), cards[i].text)]

\* openTheaterWithNotes: the browser has the answer of GET /api/notes and
\* renders one card per note.
OpenTheaterWithNotes(r) ==
    /\ reqs[r].pc = "done" /\ reqs[r].op = "list" /\ reqs[r].status = 200
    /\ Len(ClientNotes(reqs[r].body)) <= MaxCards
    /\ page' = [vod |-> reqs[r].vod, cards |-> RenderNotes(ClientNotes(reqs[r].body)),
                hdr |-> reqs[r].hdr, edits |-> 0]
    /\ reqs' = [reqs EXCEPT ![r] = Idle]
    /\ lastCommit' = IF lastCommit = r THEN 0 ELSE lastCommit
    /\ UNCHANGED <<disk, catalogVars, scanVars, writer, authVars>>

RemoveAt(cards, i) == [j \in 1..(Len(cards) - 1) |-> IF j < i THEN cards[j] ELSE cards[j + 1]]

\* What the user does to the panel: the add button appends an empty card at
\* the position of the video, the button of a card removes it, typing in a
\* textarea fires an input event with the text as it then is.
CardEdits(cards) ==
    {Append(cards, [time |-> FormatTimestamp(7), text |-> ""]) : n \in {Len(cards)} \ {MaxCards}}
        \cup {RemoveAt(cards, i) : i \in 1..Len(cards)}
        \cup {[cards EXCEPT ![i].text = text] : i \in 1..Len(cards), text \in {"ok"}}

\* Every edit calls saveNotes, which sends all the cards with POST
\* /api/notes and does not wait for the requests sent before it.
EditNotes(r) ==
    /\ Serving
    /\ reqs[r].pc = "idle"
    /\ page.vod # 0
    /\ page.edits < MaxEdits
    /\ \E cards \in CardEdits(page.cards) :
        LET body == [vod_id |-> page.vod, notes |-> CardNotes(cards)]
            g == Auth(page.hdr, now)
            req == [Idle EXCEPT !.route = "/api/notes", !.method = "POST",
                                !.hdr = page.hdr, !.arg = <<body, page.edits + 1>>]
        IN  /\ reqs' = [reqs EXCEPT ![r] =
                IF g.status = 200
                THEN [req EXCEPT !.pc = "handler", !.user = g.id, !.role = g.role]
                ELSE [req EXCEPT !.pc = "done", !.status = g.status, !.body = g.body]]
            /\ page' = [page EXCEPT !.cards = cards, !.edits = @ + 1]
    /\ UNCHANGED <<disk, catalogVars, scanVars, writer, lastCommit, authVars>>

\* ------------------------------------------- the handlers of one statement
\* What a handler writes with http.Error or writeJSON, and returns.
Answer(req, status, body) == [req EXCEPT !.pc = "done", !.status = status, !.body = body]

\* The gate has called the handler of this route, whatever the method.
Routed(r, route) == reqs[r].pc = "handler" /\ reqs[r].route = route

\* A recording id that no row of vods has.
AbsentVod == MaxVodId + 1

\* The bodies of POST /api/notes/add: a blank note, and a note with spaces
\* around its text.
NoteBodies == {Item(0, "  "), Item(7, " ok ")}

\* POST /api/notes/add: one INSERT on the database handle.
AddNote(r) ==
    /\ Routed(r, "/api/notes/add")
    /\ LET called == [reqs[r] EXCEPT !.op = "addNote", !.old = notes]
       IN  \/ /\ reqs[r].method # "POST"
              /\ reqs' = [reqs EXCEPT ![r] = Answer(called, 405, "POST only")]
              /\ notes' = notes
           \/ /\ reqs[r].method = "POST"                  \* the body is no JSON
              /\ reqs' = [reqs EXCEPT ![r] = Answer(called, 400, "bad request")]
              /\ notes' = notes
           \/ /\ reqs[r].method = "POST"
              /\ \E vod \in VodIds \cup {AbsentVod}, item \in NoteBodies :
                  LET req == [called EXCEPT !.vod = vod, !.items = <<item>>]
                  IN  IF IsBlank(item.content)
                      THEN /\ reqs' = [reqs EXCEPT ![r] = Answer(req, 400, "empty note")]
                           /\ notes' = notes
                      ELSE \/ /\ ~Busy(r)
                              /\ BagCardinality(notes) < MaxNotes
                              /\ notes' = ExecInsertNote(notes, vod, reqs[r].user, item)
                              /\ reqs' = [reqs EXCEPT ![r] = Answer(req, 200, "ok")]
                           \/ /\ notes' = notes
                              /\ reqs' = [reqs EXCEPT ![r] = Answer(req, 500, "db error")]
    /\ UNCHANGED <<disk, teams, players, vods, users, seq, scanVars, writer, lastCommit,
                   authVars, page>>

\* DELETE /api/notes?vod_id=...: one DELETE on the database handle.
DeleteNotes(r) ==
    /\ In(r, "/api/notes", "DELETE")
    /\ \E vod \in VodIds \cup {0, AbsentVod} :
        LET req == [reqs[r] EXCEPT !.op = "deleteNotes", !.vod = vod, !.old = notes]
        IN  \/ /\ vod = 0                         \* missing vod_id
               /\ reqs' = [reqs EXCEPT ![r] = Answer(req, 400, "missing vod_id")]
               /\ notes' = notes
            \/ /\ vod # 0
               /\ ~Busy(r)
               /\ notes' = ExecDeleteNotes(notes, vod, reqs[r].user)
               /\ reqs' = [reqs EXCEPT ![r] = Answer(req, 200, "deleted")]
            \/ /\ vod # 0
               /\ notes' = notes
               /\ reqs' = [reqs EXCEPT ![r] = Answer(req, 500, "db error")]
    /\ UNCHANGED <<disk, teams, players, vods, users, seq, scanVars, writer, lastCommit,
                   authVars, page>>

\* /api/notes with another method than GET, POST and DELETE.
NotesOtherMethod(r) ==
    /\ Routed(r, "/api/notes")
    /\ reqs[r].method \notin {"GET", "POST", "DELETE"}
    /\ reqs' = [reqs EXCEPT ![r] = Answer(reqs[r], 405, "method not allowed")]
    /\ UNCHANGED <<disk, catalogVars, scanVars, writer, lastCommit, authVars, page>>

\* The names of teams and players in the BINARY collation of SQLite.
Collation == <<"P", "T", "sample-player", "sample-team">>

NameRank(name) == CHOOSE i \in 1..Len(Collation) : Collation[i] = name

\* ORDER BY name of rows with distinct names.
RECURSIVE OrderByName(_)
OrderByName(rows) ==
    IF rows = {} THEN <<>>
    ELSE LET first == CHOOSE x \in rows : \A y \in rows : NameRank(x.name) <= NameRank(y.name)
         IN  <<first>> \o OrderByName(rows \ {first})

\* ORDER BY id DESC
RECURSIVE OrderByIdDesc(_)
OrderByIdDesc(rows) ==
    IF rows = {} THEN <<>>
    ELSE LET first == CHOOSE x \in rows : \A y \in rows : x.id >= y.id
         IN  <<first>> \o OrderByIdDesc(rows \ {first})

\* A listing handler: the query fails, or the rows are encoded.
Listed(r, req, rows) ==
    /\ \/ reqs' = [reqs EXCEPT ![r] = Answer(req, 500, "db error")]
       \/ reqs' = [reqs EXCEPT ![r] = Answer(req, 200, EncodeSlice(rows))]
    /\ UNCHANGED <<disk, catalogVars, scanVars, writer, lastCommit, authVars, page>>

\* /api/teams: SELECT id, name FROM teams ORDER BY name
ListTeams(r) ==
    /\ Routed(r, "/api/teams")
    /\ Listed(r, [reqs[r] EXCEPT !.op = "listTeams"],
              OrderByName({[id |-> t.id, name |-> t.name] : t \in teams}))

\* A team id that no row of teams has.
AbsentTeam == 99

\* /api/players?team_id=...: SELECT id, name FROM players WHERE team_id = ?
\* ORDER BY name
ListPlayers(r) ==
    /\ Routed(r, "/api/players")
    /\ \E team \in {t.id : t \in teams} \cup {0, AbsentTeam} :
        LET req == [reqs[r] EXCEPT !.op = "listPlayers", !.arg = <<team>>]
        IN  IF team = 0                           \* missing team_id
            THEN /\ reqs' = [reqs EXCEPT ![r] = Answer(req, 400, "missing team_id")]
                 /\ UNCHANGED <<disk, catalogVars, scanVars, writer, lastCommit, authVars, page>>
            ELSE Listed(r, req, OrderByName({[id |-> p.id, name |-> p.name] :
                                                p \in {q \in players : q.team_id = team}}))

\* /api/list-vods: SELECT id, file_path, title FROM vods ORDER BY id DESC
ListVods(r) ==
    /\ Routed(r, "/api/list-vods")
    /\ Listed(r, [reqs[r] EXCEPT !.op = "listVods"],
              OrderByIdDesc({[id |-> v.id, file_path |-> v.file_path, title |-> v.title] :
                                v \in vods}))

\* ---------------------------------------------------- the admin handlers
\* Mutant: the role of the caller is not checked.
ForbiddenNobody(role) == FALSE

\* role != "admin": the handler answers 403.
Forbidden(role) == role # "admin"

\* os.MkdirAll of a directory: the tree with that directory.
MkdirAll(d, dirs, name) == d \cup {Entry(dirs, FileName(name, ""), TRUE)}

\* Mutant: a plain INSERT that does not look for the name.
InsertTeamAlways(cat, teamName) ==
    [cat EXCEPT !.teams = @ \cup {[id |-> cat.seq.teams + 1, name |-> teamName]},
                !.seq.teams = @ + 1]

\* INSERT OR IGNORE INTO teams(name): teams.name is UNIQUE.
InsertOrIgnoreTeam(cat, teamName) ==
    IF \E t \in cat.teams : t.name = teamName THEN cat
    ELSE [cat EXCEPT !.teams = @ \cup {[id |-> cat.seq.teams + 1, name |-> teamName]},
                     !.seq.teams = @ + 1]

\* INSERT OR IGNORE INTO players(name, team_id): UNIQUE (team_id, name).
InsertOrIgnorePlayer(cat, playerName, teamID) ==
    IF \E q \in cat.players : q.name = playerName /\ q.team_id = teamID THEN cat
    ELSE [cat EXCEPT !.players = @ \cup {[id |-> cat.seq.players + 1, team_id |-> teamID,
                                          name |-> playerName]},
                     !.seq.players = @ + 1]

\* The names in the bodies of add-team.
TeamBodies == {" T ", ""}

\* /api/admin/add-team
AddTeam(r) ==
    /\ Routed(r, "/api/admin/add-team")
    /\ LET called == [reqs[r] EXCEPT !.op = "addTeam"]
       IN  IF Forbidden(reqs[r].role)
           THEN /\ reqs' = [reqs EXCEPT ![r] = Answer(called, 403, "forbidden")]
                /\ UNCHANGED <<disk, catalogVars>>
           ELSE \/ /\ reqs' = [reqs EXCEPT ![r] = Answer(called, 400, "bad json")]
                   /\ UNCHANGED <<disk, catalogVars>>
                \/ \E name \in TeamBodies :
                    LET req == [called EXCEPT !.arg = <<name>>]
                        teamName == TrimSpace(name)
                        inserted == InsertOrIgnoreTeam(Catalog, teamName)
                    IN  IF teamName = ""
                        THEN /\ reqs' = [reqs EXCEPT ![r] =
                                            Answer(req, 400, "team name required")]
                             /\ UNCHANGED <<disk, catalogVars>>
                        ELSE \/ /\ reqs' = [reqs EXCEPT ![r] = Answer(req, 500, "db error")]
                                /\ UNCHANGED <<disk, catalogVars>>
                             \/ /\ SetCatalog(inserted)
                                /\ disk' = disk
                                /\ reqs' = [reqs EXCEPT ![r] = Answer(req, 500, "mkdir error")]
                             \/ /\ SetCatalog(inserted)
                                /\ disk' = MkdirAll(disk, <<"storage", "teams", teamName>>,
                                                    "players")
                                /\ reqs' = [reqs EXCEPT ![r] = Answer(req, 200, "ok")]
    /\ UNCHANGED <<scanVars, writer, lastCommit, authVars, page>>

\* Mutant: the SELECT has lost its WHERE, every team is found.
SelectTeamAny(table, teamName) == table

\* SELECT id FROM teams WHERE name = ?: the rows found (none: sql.ErrNoRows).
SelectTeam(table, teamName) == {t \in table : t.name = teamName}

\* The team and player names in the bodies of add-player.
PlayerBodies == {<<" T ", " P ">>, <<"V", "P">>, <<"T", "">>}

\* /api/admin/add-player
AddPlayer(r) ==
    /\ Routed(r, "/api/admin/add-player")
    /\ LET called == [reqs[r] EXCEPT !.op = "addPlayer"]
       IN  IF Forbidden(reqs[r].role)
           THEN /\ reqs' = [reqs EXCEPT ![r] = Answer(called, 403, "forbidden")]
                /\ UNCHANGED <<disk, catalogVars>>
           ELSE \/ /\ reqs' = [reqs EXCEPT ![r] = Answer(called, 400, "bad json")]
                   /\ UNCHANGED <<disk, catalogVars>>
                \/ \E names \in PlayerBodies :
                    LET req == [called EXCEPT !.arg = names]
                        team == TrimSpace(names[1])
                        player == TrimSpace(names[2])
                        found == SelectTeam(teams, team)
                        teamID == (CHOOSE t \in found : TRUE).id
                    IN  IF team = "" \/ player = ""
                        THEN /\ reqs' = [reqs EXCEPT ![r] =
                                            Answer(req, 400, "team and player required")]
                             /\ UNCHANGED <<disk, catalogVars>>
                        ELSE \/ /\ reqs' = [reqs EXCEPT ![r] = Answer(req, 500, "db error")]
                                /\ UNCHANGED <<disk, catalogVars>>
                             \/ /\ found = {}
                                /\ reqs' = [reqs EXCEPT ![r] =
                                               Answer(req, 404, "team not found")]
                                /\ UNCHANGED <<disk, catalogVars>>
                             \/ /\ found # {}
                                /\ SetCatalog(InsertOrIgnorePlayer(Catalog, player, teamID))
                                /\ disk' = disk
                                /\ reqs' = [reqs EXCEPT ![r] = Answer(req, 500, "mkdir error")]
                             \/ /\ found # {}
                                /\ SetCatalog(InsertOrIgnorePlayer(Catalog, player, teamID))
                                /\ disk' = MkdirAll(disk, <<"storage", "teams", team,
                                                            "players", player>>, "vods")
                                /\ reqs' = [reqs EXCEPT ![r] = Answer(req, 200, "ok")]
    /\ UNCHANGED <<scanVars, writer, lastCommit, authVars, page>>

UserBody(username, password, role) ==
    [username |-> username, password |-> password, role |-> role]

\* The bodies of add-user: a new player, a blank name, a role that is none
\* of the three, and a name that is taken.
UserBodies ==
    {UserBody("player1", "pw1", "player"), UserBody(" ", "pw1", "player"),
     UserBody("player1", "pw1", "boss"), UserBody("admin", "pw1", "coach")}

\* /api/admin/add-user
AddUser(r) ==
    /\ Routed(r, "/api/admin/add-user")
    /\ LET called == [reqs[r] EXCEPT !.op = "addUser"]
       IN  IF Forbidden(reqs[r].role)
           THEN /\ reqs' = [reqs EXCEPT ![r] = Answer(called, 403, "forbidden")]
                /\ UNCHANGED <<users, seq>>
           ELSE \/ /\ reqs' = [reqs EXCEPT ![r] = Answer(called, 400, "bad json")]
                   /\ UNCHANGED <<users, seq>>
                \/ \E body \in UserBodies :
                    LET req == [called EXCEPT !.arg = <<body>>]
                        username == TrimSpace(body.username)
                        role == TrimSpace(body.role)
                        taken == \E u \in users : u.username = username
                    IN  IF username = "" \/ body.password = ""
                        THEN /\ reqs' = [reqs EXCEPT ![r] =
                                            Answer(req, 400, "missing username/password")]
                             /\ UNCHANGED <<users, seq>>
                        ELSE IF role \notin {"admin", "coach", "player"}
                        THEN /\ reqs' = [reqs EXCEPT ![r] = Answer(req, 400, "invalid role")]
                             /\ UNCHANGED <<users, seq>>
                        ELSE \/ /\ reqs' = [reqs EXCEPT ![r] = Answer(req, 500, "db error")]
                                /\ UNCHANGED <<users, seq>>
                             \/ /\ ~taken
                                /\ users' = users \cup
                                      {[id |-> seq.users + 1, username |-> username,
                                        role |-> role,
                                        password_hash |-> Hash(body.password)]}
                                /\ seq' = [seq EXCEPT !.users = @ + 1]
                                /\ reqs' = [reqs EXCEPT ![r] = Answer(req, 200, "ok")]
    /\ UNCHANGED <<disk, teams, players, vods, notes, scanVars, writer, lastCommit, authVars, page>>

\* ---------------------------------------------------------------- login
Credentials(username, password) == [username |-> username, password |-> password]

\* What the clients type: the admin's and the coach's passwords, a wrong
\* password, and a name no user has.
LoginBodies ==
    {Credentials("admin", "tempPass"), Credentials("admin", "wrong"),
     Credentials("coach", "coachPass"), Credentials("ghost", "wrong")}

\* Mutant: an unknown username is answered with its own message.
LoginResponseNamesUser(table, cred, t) ==
    LET found == {u \in table : u.username = cred.username}
    IN  IF found = {} THEN [status |-> 404, body |-> "no such user"]
        ELSE LET u == CHOOSE x \in found : TRUE
             IN  IF ~CompareHashAndPassword(u.password_hash, cred.password)
                 THEN [status |-> 401, body |-> "invalid credentials"]
                 ELSE [status |-> 200, body |-> Mint(u, t)]

\* The SELECT of login and the comparison of the hash: the status and the
\* body (the token, on success).
LoginResponse(table, cred, t) ==
    LET found == {u \in table : u.username = cred.username}
    IN  IF found = {} THEN [status |-> 401, body |-> "invalid credentials"]
        ELSE LET u == CHOOSE x \in found : TRUE
             IN  IF ~CompareHashAndPassword(u.password_hash, cred.password)
                 THEN [status |-> 401, body |-> "invalid credentials"]
                 ELSE [status |-> 200, body |-> Mint(u, t)]

\* /api/login, a route that is not behind the gate.
Login(r) ==
    /\ Serving
    /\ reqs[r].pc = "idle"
    /\ LET called == [Idle EXCEPT !.op = "login", !.route = "/api/login"]
       IN  \/ /\ reqs' = [reqs EXCEPT ![r] = Answer([called EXCEPT !.method = "GET"],
                                                    405, "POST only")]
              /\ tokens' = tokens
           \/ /\ reqs' = [reqs EXCEPT ![r] = Answer([called EXCEPT !.method = "POST"],
                                                    400, "invalid JSON")]
              /\ tokens' = tokens
           \/ \E cred \in LoginBodies :
                LET req == [called EXCEPT !.method = "POST", !.arg = <<cred>>]
                    resp == LoginResponse(users, cred, now)
                IN  /\ reqs' = [reqs EXCEPT ![r] = Answer(req, resp.status, resp.body)]
                    /\ IF resp.status = 200
                       THEN /\ Cardinality(tokens \cup {resp.body}) <= MaxTokens
                            /\ tokens' = tokens \cup {resp.body}
                       ELSE tokens' = tokens
    /\ UNCHANGED <<disk, catalogVars, scanVars, writer, lastCommit, now, page>>

\* Time passes.
Tick ==
    /\ \E t \in Instants : t > now /\ now' = t
    /\ UNCHANGED <<disk, catalogVars, scanVars, reqVars, tokens, page>>

\* ------------------------------------------------------ specifications
SeedCatalog ==
    [teams |-> {[id |-> 1, name |-> "sample-team"]},
     players |-> {[id |-> 1, team_id |-> 1, name |-> "sample-player"]},
     vods |-> {},
     notes |-> EmptyBag,
     users |-> {[id |-> 1, username |-> "admin", role |-> "admin",
                 password_hash |-> Hash("tempPass")]},
     seq |-> [teams |-> 1, players |-> 1, vods |-> 0, users |-> 1]]

InitCatalog(cat) ==
    /\ teams = cat.teams
    /\ players = cat.players
    /\ vods = cat.vods
    /\ notes = cat.notes
    /\ users = cat.users
    /\ seq = cat.seq

\* A tree with one recording of each of two players, and the catalog the
\* scan makes of it.
ScannedDisk == SetupDirs \cup {WalkOrder[2], WalkOrder[4]}

ScannedCatalog ==
    VisitEntry(VisitEntry(SeedCatalog, WalkOrder[2], "none").cat, WalkOrder[4], "none").cat

\* The database an earlier run of the server left behind: the admin has
\* saved a note on the recording f.mp4 (vod 2).
NotedCatalog ==
    [ScannedCatalog EXCEPT !.notes = ExecInsertNote(EmptyBag, 2, 1, Item(5, "ok"))]

\* The database of a serving process once the admin has added a coach.
TeamCatalog ==
    [ScannedCatalog EXCEPT !.users = @ \cup {[id |-> 2, username |-> "coach", role |-> "coach",
                                              password_hash |-> Hash("coachPass")]},
                           !.seq.users = 2]

\* main starts ScanStorage on the tree d and the database cat.
Start(d, cat) ==
    /\ disk = d
    /\ InitCatalog(cat)
    /\ phase = "scan"
    /\ walkQueue = Walk(d)
    /\ filesOnDisk = {}
    /\ scanResult = "none"
    /\ scanMuts = <<>>
    /\ treeFresh = TRUE
    /\ rescan = FALSE
    /\ reqs = [r \in {1} |-> Idle]
    /\ writer = 0
    /\ lastCommit = 0
    /\ now = 0
    /\ tokens = {}
    /\ page = NoPage

\* main starts on the database setup.go made, or on the database and the
\* tree an earlier run left behind.
Init == Start(SetupDirs, SeedCatalog) \/ Start(ScannedDisk, NotedCatalog)

Next ==
    \/ ScanVisit
    \/ ScanRemove
    \/ Restart
    \/ DiskChange

Spec == Init /\ [][Next]_vars

\* A serving process: the scan has returned, two requests can be in flight.
InitNotes ==
    /\ disk = ScannedDisk
    /\ InitCatalog(TeamCatalog)
    /\ phase = "serve"
    /\ walkQueue = <<>>
    /\ filesOnDisk = {}
    /\ scanResult = "ok"
    /\ scanMuts = <<>>
    /\ treeFresh = TRUE
    /\ rescan = FALSE
    /\ reqs = [r \in {1, 2} |-> Idle]
    /\ writer = 0
    /\ lastCommit = 0
    /\ now = 0
    /\ tokens = {Mint(u, 0) : u \in users}
    /\ page = NoPage

\* GET and POST on /api/notes.
NotesRequests == {Request("/api/notes", "GET"), Request("/api/notes", "POST")}

NextNotes ==
    \E r \in DOMAIN reqs :
        \/ ArriveAt(r, NotesRequests)
        \/ ListNotes(r)
        \/ SaveBegin(r)
        \/ SaveDelete(r)
        \/ SaveInsert(r)
        \/ SaveCommit(r)
        \/ Finish(r)

SpecNotes == InitNotes /\ [][NextNotes]_vars

\* The database setup.go made, once the admin has added a coach.
StaffCatalog ==
    [SeedCatalog EXCEPT !.users = @ \cup {[id |-> 2, username |-> "coach", role |-> "coach",
                                           password_hash |-> Hash("coachPass")]},
                        !.seq.users = 2]

\* Every route behind the gate but POST /api/notes, with the methods sent.
ApiRequests ==
    {Request("/api/notes/add", "POST"), Request("/api/notes/add", "GET"),
     Request("/api/notes", "GET"), Request("/api/notes", "DELETE"),
     Request("/api/notes", "PUT"),
     Request("/api/teams", "GET"), Request("/api/players", "GET"),
     Request("/api/list-vods", "GET"),
     Request("/api/admin/add-team", "POST"), Request("/api/admin/add-player", "POST"),
     Request("/api/admin/add-user", "POST")}

\* A process that starts on a tree with two recordings, a day after the
\* admin logged in for the first time; the admin and the coach have logged
\* in again since.
InitApi ==
    /\ disk = ScannedDisk
    /\ InitCatalog(StaffCatalog)
    /\ phase = "scan"
    /\ walkQueue = Walk(ScannedDisk)
    /\ filesOnDisk = {}
    /\ scanResult = "none"
    /\ scanMuts = <<>>
    /\ treeFresh = TRUE
    /\ rescan = FALSE
    /\ reqs = [r \in {1} |-> Idle]
    /\ writer = 0
    /\ lastCommit = 0
    /\ now = DayTicks + 1
    /\ tokens = {Mint(u, DayTicks) : u \in users}
                   \cup {Mint(u, 0) : u \in {x \in users : x.role = "admin"}}
    /\ page = NoPage

NextApi ==
    \/ ScanVisit
    \/ ScanRemove
    \/ Restart
    \/ \E r \in DOMAIN reqs :
        \/ ArriveAt(r, ApiRequests)
        \/ AddNote(r)
        \/ ListNotes(r)
        \/ DeleteNotes(r)
        \/ NotesOtherMethod(r)
        \/ ListTeams(r)
        \/ ListPlayers(r)
        \/ ListVods(r)
        \/ AddTeam(r)
        \/ AddPlayer(r)
        \/ AddUser(r)
        \/ Finish(r)

SpecApi == InitApi /\ [][NextApi]_vars

\* A serving process with its clock: clients log in and call a route.
InitAuth ==
    /\ disk = ScannedDisk
    /\ InitCatalog(TeamCatalog)
    /\ phase = "serve"
    /\ walkQueue = <<>>
    /\ filesOnDisk = {}
    /\ scanResult = "ok"
    /\ scanMuts = <<>>
    /\ treeFresh = TRUE
    /\ rescan = FALSE
    /\ reqs = [r \in {1, 2} |-> Idle]
    /\ writer = 0
    /\ lastCommit = 0
    /\ now = 0
    /\ tokens = {}
    /\ page = NoPage

NextAuth ==
    \/ Tick
    \/ \E r \in DOMAIN reqs :
        \/ Login(r)
        \/ ArriveAt(r, {Request("/api/teams", "GET")})
        \/ ListTeams(r)
        \/ Finish(r)

SpecAuth == InitAuth /\ [][NextAuth]_vars

\* The database of a serving process with a coach, in which the admin has a
\* note on the recording f.mp4 (vod 2).
SharedCatalog ==
    [TeamCatalog EXCEPT !.notes = ExecInsertNote(EmptyBag, 2, 1, Item(65, "ok"))]

\* The scan has returned nil on the tree d; the users of holders have
\* logged in, and requests are handled in these slots.
Serve(d, cat, slots, holders) ==
    /\ disk = d
    /\ InitCatalog(cat)
    /\ phase = "serve"
    /\ walkQueue = <<>>
    /\ filesOnDisk = {}
    /\ scanResult = "ok"
    /\ scanMuts = <<>>
    /\ treeFresh = TRUE
    /\ rescan = FALSE
    /\ reqs = [r \in slots |-> Idle]
    /\ writer = 0
    /\ lastCommit = 0
    /\ now = 0
    /\ tokens = {Mint(u, 0) : u \in {x \in cat.users : x.username \in holders}}
    /\ page = NoPage

\* The admin and the coach append, replace and clear notes, one request
\* at a time.
InitAuthor == Serve(ScannedDisk, SharedCatalog, {1}, {"admin", "coach"})

AuthorRequests ==
    {Request("/api/notes/add", "POST"), Request("/api/notes", "POST"),
     Request("/api/notes", "DELETE")}

NextAuthor ==
    \E r \in DOMAIN reqs :
        \/ ArriveAt(r, AuthorRequests)
        \/ AddNote(r)
        \/ SaveBegin(r)
        \/ SaveDelete(r)
        \/ SaveInsert(r)
        \/ SaveCommit(r)
        \/ DeleteNotes(r)
        \/ Finish(r)

SpecAuthor == InitAuthor /\ [][NextAuthor]_vars

\* A browser opens the notes panel of a recording and edits the notes; its
\* requests are handled two at a time.
OneVodDisk == SetupDirs \cup {WalkOrder[4]}

\* The catalog the scan makes of that tree, with a coach, and a note of
\* the admin on its recording (vod 1).
OneVodCatalog ==
    [VisitEntry(StaffCatalog, WalkOrder[4], "none").cat
        EXCEPT !.notes = ExecInsertNote(EmptyBag, 1, 1, Item(65, "ok"))]

InitClient == Serve(OneVodDisk, OneVodCatalog, {1, 2}, {"coach"})

NextClient ==
    \E r \in DOMAIN reqs :
        \/ ArriveAt(r, {Request("/api/notes", "GET")})
        \/ ListNotes(r)
        \/ OpenTheaterWithNotes(r)
        \/ EditNotes(r)
        \/ SaveBegin(r)
        \/ SaveDelete(r)
        \/ SaveInsert(r)
        \/ SaveCommit(r)
        \/ Finish(r)

SpecClient == InitClient /\ [][NextClient]_vars

\* Processes started one after the other on one tree: the files the operator
\* dropped after setup.go; the tree of an earlier run from which f.mp4 has
\* been taken; that tree with every recording taken.
DroppedTree ==
    SetupDirs \cup {WalkOrder[1], WalkOrder[2], WalkOrder[4], WalkOrder[5], WalkOrder[6]}

ShrunkTree == SetupDirs \cup {WalkOrder[2], WalkOrder[6]}

EmptiedTree == SetupDirs

\* The database the first of these processes finds next to the tree.
LeftBehind(d) ==
    IF d = DroppedTree THEN SeedCatalog
    ELSE IF d = ShrunkTree THEN NotedCatalog
    ELSE ScannedCatalog

InitRecover == \E d \in {DroppedTree, ShrunkTree, EmptiedTree} : Start(d, LeftBehind(d))

NextRecover ==
    \/ ScanVisit
    \/ ScanRemove
    \/ Restart

SpecRecover == InitRecover /\ [][NextRecover]_vars

\* ScanStorage when no statement fails: the callback on every entry of the
\* walk, then the removal phase with the paths the walk recorded.
RECURSIVE VisitAll(_, _)
VisitAll(cat, queue) ==
    IF queue = <<>> THEN cat
    ELSE VisitAll(VisitEntry(cat, Head(queue), "none").cat, Tail(queue))

SeenOnDisk(d) == {e.path : e \in {x \in d : ~Ignored(x)}}

ScanStorage(cat, d) == RemoveMissing(VisitAll(cat, Walk(d)), SeenOnDisk(d), {}).cat

\* ----------------------------------------------------- the scan's claims
\* The files of a tree that qualify: regular files with a video extension
\* at storage/teams/<team>/players/<player>/vods/<file>.
Matches(e) ==
    /\ ~e.isDir
    /\ ToLower(e.path.name.ext) = "mp4"
    /\ Len(e.path.dirs) = 6
    /\ e.path.dirs[1] = "storage" /\ e.path.dirs[2] = "teams"
    /\ e.path.dirs[4] = "players" /\ e.path.dirs[6] = "vods"

Qualifying(d) == {e.path : e \in {x \in d : Matches(x)}}

VodPaths == {v.file_path : v \in vods}

\* ScanStorage has returned nil and the tree is as it walked it.
ScanReturnedOk == phase = "serve" /\ scanResult = "ok" /\ treeFresh

\* C1: after ScanStorage returns without error, the file_path values of vods
\* are exactly the qualifying files on disk.
C1_DiskCatalogEquivalence == ScanReturnedOk => VodPaths = Qualifying(disk)

\* C2: a scan of an unchanged tree, started from the catalog the scan before
\* it left, inserts no team, player or recording and deletes no recording.
C2_RescanMutatesNothing == rescan => scanMuts = <<>>

\* The callback has returned nil on the entry at the head of the walk.
Visited(e) == phase = "scan" /\ walkQueue # <<>> /\ Head(walkQueue) = e /\ phase' = "scan"

InsertsOf(tables) == [i \in 1..Len(tables) |-> [op |-> "insert", table |-> tables[i]]]

Kinds(muts) == [i \in 1..Len(muts) |-> [op |-> muts[i].op, table |-> muts[i].table]]

\* C3: scanning teams/T/players/P/vods/f creates the team T, then the player
\* P of T, then the recording with that path, that player and the file's
\* base name as title; a team or player that exists is reused.
C3_ScanCreatesAncestry ==
    [][\A e \in DiskUniverse : (Matches(e) /\ Visited(e)) =>
        LET T == e.path.dirs[3]
            P == e.path.dirs[5]
            hadTeam == \E t \in teams : t.name = T
            hadPlayer == \E t \in teams, p \in players :
                            t.name = T /\ p.name = P /\ p.team_id = t.id
            hadVod == \E v \in vods : v.file_path = e.path
        IN  /\ \E t \in teams', p \in players', v \in vods' :
                  /\ t.name = T
                  /\ p.name = P /\ p.team_id = t.id
                  /\ v.file_path = e.path /\ v.player_id = p.id
                  /\ (~hadVod => v.title = e.path.name)
            /\ hadTeam => teams' = teams
            /\ hadPlayer => players' = players
            /\ Cardinality(teams') = Cardinality(teams) + (IF hadTeam THEN 0 ELSE 1)
            /\ Cardinality(players') = Cardinality(players) + (IF hadPlayer THEN 0 ELSE 1)
            /\ Kinds(scanMuts') =
                   InsertsOf((IF hadTeam THEN <<>> ELSE <<"teams">>)
                             \o (IF hadPlayer THEN <<>> ELSE <<"players">>)
                             \o (IF hadVod THEN <<>> ELSE <<"vods">>))
      ]_vars

\* The scan has just created a team, its player and the recording, in order.
C3_Witness ==
    /\ phase = "scan"
    /\ Kinds(scanMuts) = InsertsOf(<<"teams", "players", "vods">>)
    /\ \E t \in teams, p \in players, v \in vods :
          /\ t.id = scanMuts[1].id /\ t.name = "T"
          /\ p.id = scanMuts[2].id /\ p.name = "P" /\ p.team_id = t.id
          /\ v.id = scanMuts[3].id /\ v.player_id = p.id /\ v.title = FileName("G", "MP4")

\* C4: a video file whose path does not match the pattern is skipped: the
\* scan creates no row because of it.
C4_NonMatchingSkipped ==
    [][\A e \in DiskUniverse :
          (~e.isDir /\ IsVideo(e.path.name) /\ ~Matches(e) /\ Visited(e)) =>
              teams' = teams /\ players' = players /\ vods' = vods]_vars

\* C5: no note refers to a recording the scan has just deleted.
C5_DeleteCascadesToNotes ==
    \A i \in 1..Len(scanMuts) :
        scanMuts[i].op = "delete" =>
            \A n \in BagToSet(notes) : n.vod_id # scanMuts[i].id

\* ---------------------------------------------------- the notes' claims
WhitespaceOnly(content) == content \in {"", " ", "  "}

\* One row per item that is not whitespace-only.
RECURSIVE Expected(_, _, _)
Expected(vod, user, items) ==
    IF items = <<>> THEN EmptyBag
    ELSE (IF WhitespaceOnly(Head(items).content) THEN EmptyBag
          ELSE SetToBag({NoteRow(vod, user, Head(items).ts_seconds, Head(items).content)}))
         (+) Expected(vod, user, Tail(items))

ExpectedOf(req) == Expected(req.vod, req.user, req.items)

Slots == DOMAIN reqs

\* Request r has taken a step of saveNotes that ended it with this message.
SaveEnded(r, body) ==
    reqs[r].op = "save" /\ reqs[r].pc # "done" /\ reqs'[r].pc = "done" /\ reqs'[r].body = body

\* C6: after a successful replace the pair holds one note per item that is
\* not whitespace-only, and nothing else.
C6_ReplaceStoresNonBlank ==
    [][\A r \in Slots : SaveEnded(r, "saved") =>
          PairNotes(notes', reqs[r].vod, reqs[r].user) = ExpectedOf(reqs[r])]_vars

\* A replace of a list with a blank note has succeeded over an older set.
C6_Witness ==
    \E r \in Slots :
        /\ reqs[r].op = "save" /\ reqs[r].pc = "done" /\ reqs[r].body = "saved"
        /\ reqs[r].items = <<Item(0, "  "), Item(5, "ok"), Item(7, " ok ")>>
        /\ PairNotes(notes, reqs[r].vod, reqs[r].user)
             = SetToBag({NoteRow(reqs[r].vod, reqs[r].user, 5, "ok"),
                         NoteRow(reqs[r].vod, reqs[r].user, 7, " ok ")})

\* The transaction of r has deleted and not yet committed.
InWindow(r) == reqs[r].op = "save" /\ reqs[r].pc \in {"insert", "commit"}

\* The notes of r's vod once r commits, as listNotes shows them.
AfterOf(req) ==
    ProjectRows(KeepRows(req.old, {n \in BagToSet(req.old) : n.user_id # req.user}) (+) ExpectedOf(req))

\* C7: a listNotes that runs while a replace of the same vod is between its
\* DELETE and its COMMIT returns the whole set of before or of after.
C7_ListSeesWholeSet ==
    [][\A l \in Slots, r \in Slots :
          (/\ reqs[l].op = "none" /\ reqs'[l].op = "list" /\ reqs'[l].status = 200
           /\ InWindow(r) /\ reqs[r].vod = reqs'[l].vod)
          => SeqToBag(ClientNotes(reqs'[l].body)) \in {ProjectRows(reqs[r].old), AfterOf(reqs[r])}]_vars

\* A list has been answered while a replace had deleted the old notes and
\* inserted one of its two.
C7_Witness ==
    \E l \in Slots, r \in Slots :
        /\ reqs[l].pc = "done" /\ reqs[l].op = "list" /\ reqs[l].status = 200
        /\ InWindow(r) /\ reqs[r].vod = reqs[l].vod
        /\ reqs[r].pc = "insert" /\ reqs[r].idx = 3
        /\ PairNotes(reqs[r].old, reqs[r].vod, reqs[r].user) # EmptyBag
        /\ SeqToBag(ClientNotes(reqs[l].body)) = ProjectRows(reqs[r].old)
        /\ ProjectRows(VodNotes(reqs[r].tx, reqs[r].vod))
             \notin {ProjectRows(reqs[r].old), AfterOf(reqs[r])}

\* C8: a replace that reports an error leaves the notes as they were: the
\* pair holds what it held when the transaction started.
C8_FailedReplaceChangesNothing ==
    [][\A r \in Slots :
          (\E body \in {"db error", "delete error", "insert error", "commit error"} :
              SaveEnded(r, body))
          => /\ reqs'[r].status = 500
             /\ notes' = notes
             /\ InWindow(r) =>
                   PairNotes(notes', reqs[r].vod, reqs[r].user)
                     = PairNotes(reqs[r].old, reqs[r].vod, reqs[r].user)]_vars

\* An INSERT of a replace has failed, and the pair still holds its notes.
C8_Witness ==
    \E r \in Slots :
        /\ reqs[r].op = "save" /\ reqs[r].pc = "done" /\ reqs[r].body = "insert error"
        /\ PairNotes(notes, reqs[r].vod, reqs[r].user) # EmptyBag

OutsidePair(db, vod, user) == KeepRows(db, {n \in BagToSet(db) : ~(n.vod_id = vod /\ n.user_id = user)})

\* C9: no step of a replace for (R, A) changes a note of another author on
\* R or a note of A on another recording.
C9_ReplaceFrame ==
    [][\A r \in Slots :
          (reqs[r].op = "save" /\ reqs'[r] # reqs[r])
          => OutsidePair(notes', reqs[r].vod, reqs[r].user)
               = OutsidePair(notes, reqs[r].vod, reqs[r].user)]_vars

\* A replace with an empty list has emptied the pair; the other author's
\* notes on the recording and the author's notes elsewhere are there.
C9_Witness ==
    \E r \in Slots :
        /\ reqs[r].op = "save" /\ reqs[r].pc = "done" /\ reqs[r].body = "saved" /\ reqs[r].items = <<>>
        /\ PairNotes(notes, reqs[r].vod, reqs[r].user) = EmptyBag
        /\ \E n \in BagToSet(notes) : n.vod_id = reqs[r].vod /\ n.user_id # reqs[r].user
        /\ \E n \in BagToSet(notes) : n.vod_id # reqs[r].vod /\ n.user_id = reqs[r].user

\* Both requests are replaces of one pair that ran concurrently and ended.
Raced(r, q) ==
    /\ r # q
    /\ reqs[r].op = "save" /\ reqs[q].op = "save"
    /\ reqs[r].pc = "done" /\ reqs[q].pc = "done"
    /\ reqs[r].conc /\ reqs[q].conc
    /\ SamePair(q, reqs[r].vod, reqs[r].user)

\* C10: after two concurrent replaces of one pair the pair holds the
\* non-blank items of the one that committed last, and nothing of the other.
C10_LastCommitWins ==
    \A r \in Slots, q \in Slots :
        (Raced(r, q) /\ lastCommit = r)
        => PairNotes(notes, reqs[r].vod, reqs[r].user) = ExpectedOf(reqs[r])

\* Two concurrent replaces with different items have both committed.
C10_Witness ==
    \E r \in Slots, q \in Slots :
        /\ Raced(r, q) /\ lastCommit = r
        /\ reqs[r].body = "saved" /\ reqs[q].body = "saved"
        /\ ExpectedOf(reqs[r]) # ExpectedOf(reqs[q])
        /\ PairNotes(notes, reqs[r].vod, reqs[r].user) = ExpectedOf(reqs[r])

\* ------------------------------------------- the claims of append and clear
\* The handler op has taken its step on request r and answered with status.
Answered(r, op, status) ==
    reqs[r].pc = "handler" /\ reqs'[r].op = op /\ reqs'[r].pc = "done"
        /\ reqs'[r].status = status

\* The subject of the token the request came with.
Subject(req) == req.hdr.token.sub

\* C11: a successful append of a non-blank note adds exactly one note, with
\* the recording, offset and content given and the caller as author, and
\* changes no note that was stored.
C11_AppendAddsOne ==
    [][\A r \in Slots : Answered(r, "addNote", 200) =>
          LET item == reqs'[r].items[1]
          IN  /\ ~WhitespaceOnly(item.content)
              /\ notes' = notes (+) SetToBag({NoteRow(reqs'[r].vod, Subject(reqs[r]),
                                                      item.ts_seconds, item.content)})
      ]_vars

\* The coach has appended a note with spaces around its text to a table that
\* held a note.
C11_Witness ==
    \E r \in Slots :
        /\ reqs[r].pc = "done" /\ reqs[r].op = "addNote" /\ reqs[r].status = 200
        /\ Subject(reqs[r]) = 2
        /\ reqs[r].old # EmptyBag
        /\ notes = reqs[r].old (+) SetToBag({NoteRow(reqs[r].vod, 2, 7, " ok ")})

\* The append on request r has decoded a body whose content is blank.
BlankAppend(r) ==
    /\ reqs[r].pc = "handler" /\ reqs'[r].op = "addNote"
    /\ reqs'[r].items # <<>>
    /\ WhitespaceOnly(reqs'[r].items[1].content)

\* C12: an append whose content is empty or whitespace-only is answered with
\* a validation error and the notes table stays as it was.
C12_BlankAppendRejected ==
    [][\A r \in Slots : BlankAppend(r) =>
          /\ reqs'[r].pc = "done"
          /\ reqs'[r].status = 400
          /\ notes' = notes]_vars

\* A blank append has been refused on a table that holds a note.
C12_Witness ==
    \E r \in Slots :
        /\ reqs[r].pc = "done" /\ reqs[r].op = "addNote" /\ reqs[r].status = 400
        /\ reqs[r].items = <<Item(0, "  ")>>
        /\ notes # EmptyBag /\ notes = reqs[r].old

\* C13: a successful clear for (recording, author) removes every note of
\* the pair and no other note; on a pair without notes it changes nothing,
\* and a second clear changes nothing more.
C13_ClearRemovesPair ==
    [][\A r \in Slots : Answered(r, "deleteNotes", 200) =>
          LET vod == reqs'[r].vod
              user == Subject(reqs[r])
          IN  /\ PairNotes(notes', vod, user) = EmptyBag
              /\ OutsidePair(notes', vod, user) = OutsidePair(notes, vod, user)
              /\ PairNotes(notes, vod, user) = EmptyBag => notes' = notes
              /\ ExecDeleteNotes(notes', vod, user) = notes'
      ]_vars

\* A clear has removed the notes of its pair and left another note.
C13_Witness ==
    \E r \in Slots :
        /\ reqs[r].pc = "done" /\ reqs[r].op = "deleteNotes" /\ reqs[r].status = 200
        /\ PairNotes(reqs[r].old, reqs[r].vod, Subject(reqs[r])) # EmptyBag
        /\ PairNotes(notes, reqs[r].vod, Subject(reqs[r])) = EmptyBag
        /\ notes # EmptyBag

\* ------------------------------------------------- the claims of the gate
\* The header is missing (no Bearer scheme), or its token is malformed, is
\* signed with a key that is not the server's, or is past its expiration.
BadHeader(hdr, t) ==
    \/ hdr.scheme # "Bearer"
    \/ ~hdr.token.wellFormed
    \/ hdr.token.key # JwtKey
    \/ t > hdr.token.exp * TicksPerSecond

\* Request r has arrived at a route behind the gate.
Arrived(r) == reqs[r].pc = "idle" /\ reqs'[r].pc # "idle" /\ reqs'[r].route # "/api/login"

\* C14: a request that comes to a gated route without a header, or with a
\* token that is malformed, signed with another key or expired, is answered
\* 401; no handler runs on it and the catalog and the tree are unchanged.
C14_GateRejects ==
    [][\A r \in Slots : (Arrived(r) /\ BadHeader(reqs'[r].hdr, now)) =>
          /\ reqs'[r].pc = "done"
          /\ reqs'[r].status = 401
          /\ reqs'[r].op = "none"
          /\ UNCHANGED <<disk, catalogVars>>]_vars

\* The token the admin got a day ago has been refused on add-team.
C14_Witness ==
    \E r \in Slots :
        /\ reqs[r].pc = "done" /\ reqs[r].status = 401 /\ reqs[r].op = "none"
        /\ reqs[r].route = "/api/admin/add-team"
        /\ reqs[r].hdr.token \in tokens
        /\ reqs[r].hdr.token.role = "admin"
        /\ now > reqs[r].hdr.token.exp * TicksPerSecond

AdminRoutes == {"/api/admin/add-team", "/api/admin/add-player", "/api/admin/add-user"}

\* C15: an admin-only operation called with a token whose role is not admin
\* is answered 403, and no team, player or user row and no directory is made.
C15_NonAdminForbidden ==
    [][\A r \in Slots :
          (/\ reqs[r].pc = "handler" /\ reqs'[r] # reqs[r]
           /\ reqs[r].route \in AdminRoutes
           /\ reqs[r].hdr.token.role # "admin")
          => /\ reqs'[r].pc = "done"
             /\ reqs'[r].status = 403
             /\ UNCHANGED <<disk, teams, players, users, seq>>]_vars

\* The coach has called add-user and got 403.
C15_Witness ==
    \E r \in Slots :
        /\ reqs[r].pc = "done" /\ reqs[r].op = "addUser" /\ reqs[r].status = 403
        /\ reqs[r].hdr.token.role = "coach"
        /\ \A u \in users : u.username # "player1"

\* ------------------------------------------------- the claims of login
\* Login has answered request r with a token.
LoggedIn(r) ==
    reqs[r].pc = "idle" /\ reqs'[r].op = "login" /\ reqs'[r].status = 200

\* What the gate answers to the token k at instant t.
GateAt(k, t) == Auth(Header("Bearer", k), t).status

\* Request r has come to the gate with a token that login issued.
ArrivedWithIssued(r) == Arrived(r) /\ reqs'[r].hdr.token \in tokens

\* C16, as stated: a token minted at instant t is accepted at every instant
\* before t + 24h and refused at every instant after t + 24h.
C16_LifetimeFromIssuance ==
    [][\A r \in Slots : LoggedIn(r) =>
          \A i \in Instants :
              /\ i < now + DayTicks => GateAt(reqs'[r].body, i) = 200
              /\ i > now + DayTicks => GateAt(reqs'[r].body, i) = 401]_vars

\* C16, amended: the expiration of a token minted at instant t is the whole
\* second of t + 24h; the gate accepts the token at every instant before
\* that second and refuses it from that second on, and no step changes a
\* token that was issued.
C16_LifetimeInWholeSeconds ==
    [][/\ \A r \in Slots : LoggedIn(r) =>
              LET k == reqs'[r].body
              IN  /\ k.exp = Unix(now) + DaySeconds
                  /\ \A i \in Instants :
                        /\ i < k.exp * TicksPerSecond => GateAt(k, i) = 200
                        /\ i >= k.exp * TicksPerSecond => GateAt(k, i) = 401
       /\ \A r \in Slots : ArrivedWithIssued(r) =>
              LET k == reqs'[r].hdr.token
              IN  IF now < k.exp * TicksPerSecond
                  THEN reqs'[r].pc = "handler"
                  ELSE reqs'[r].pc = "done" /\ reqs'[r].status = 401
       /\ tokens \subseteq tokens'
      ]_vars

\* A token issued in the first second has been refused at the first instant
\* of its expiration second.
C16_Witness ==
    \E r \in Slots, u \in users :
        /\ reqs[r].pc = "done" /\ reqs[r].status = 401 /\ reqs[r].body = "invalid token"
        /\ reqs[r].hdr.token \in tokens
        /\ reqs[r].hdr.token = Mint(u, 0)
        /\ now = reqs[r].hdr.token.exp * TicksPerSecond

\* The credentials name a user and carry a password that is not the user's.
WrongPassword(table, cred) ==
    \E u \in table : u.username = cred.username
                       /\ ~CompareHashAndPassword(u.password_hash, cred.password)

UnknownUser(table, cred) == \A u \in table : u.username # cred.username

\* C17: login answers a wrong password for a username that exists with the
\* status and the body it answers to a username that does not exist.
C17_LoginDoesNotLeak ==
    \A c \in LoginBodies, d \in LoginBodies :
        (WrongPassword(users, c) /\ UnknownUser(users, d))
        => LoginResponse(users, c, now) = LoginResponse(users, d, now)

\* One client has sent a wrong password for admin, another a name that no
\* user has, and the two answers are the same.
C17_Witness ==
    \E r \in Slots, q \in Slots :
        /\ reqs[r].pc = "done" /\ reqs[r].op = "login"
        /\ reqs[q].pc = "done" /\ reqs[q].op = "login"
        /\ reqs[r].arg = <<Credentials("admin", "wrong")>>
        /\ reqs[q].arg = <<Credentials("ghost", "wrong")>>
        /\ reqs[r].status = 401
        /\ reqs[r].status = reqs[q].status /\ reqs[r].body = reqs[q].body

\* ------------------------------------------- the claims of names and paths
UniqueTeams(table) == \A t \in table, u \in table : t.name = u.name => t = u

UniquePlayers(table) ==
    \A p \in table, q \in table : (p.team_id = q.team_id /\ p.name = q.name) => p = q

\* add-team has answered 200 for a name that a team had.
AddedKnownTeam(r) ==
    /\ Answered(r, "addTeam", 200)
    /\ \E t \in teams : t.name = TrimSpace(reqs'[r].arg[1])

\* add-player has answered 200 for a player that the team had.
AddedKnownPlayer(r) ==
    /\ Answered(r, "addPlayer", 200)
    /\ \E t \in teams, p \in players :
          /\ t.name = TrimSpace(reqs'[r].arg[1])
          /\ p.team_id = t.id /\ p.name = TrimSpace(reqs'[r].arg[2])

\* C18: whatever scans, add-team and add-player calls have run, no two teams
\* have one name and no two players one (team, name); add-team and
\* add-player on a name that exists succeed and leave the rows as they are.
C18_NamesStayUnique ==
    [][/\ UniqueTeams(teams') /\ UniquePlayers(players')
       /\ \A r \in Slots : AddedKnownTeam(r) => teams' = teams
       /\ \A r \in Slots : AddedKnownPlayer(r) => players' = players
      ]_vars

\* A scan and add-player have both asked for the player P of the team T,
\* and there is one team T and one player P.
C18_Witness ==
    \E r \in Slots :
        /\ reqs[r].pc = "done" /\ reqs[r].op = "addPlayer" /\ reqs[r].status = 200
        /\ \E v \in vods : v.file_path = WalkOrder[2].path
        /\ Cardinality(teams) = 2 /\ seq.teams = 2
        /\ Cardinality(players) = 2 /\ seq.players = 2
        /\ scanResult = "ok"

\* C19: no two recordings have one file_path.
C19_PathsStayUnique ==
    \A v \in vods, w \in vods : v.file_path = w.file_path => v = w

\* A scan has come again to a file that has its recording, and has not
\* inserted it again.
C19_Witness ==
    /\ phase = "scan"
    /\ scanResult = "ok"
    /\ scanMuts = <<>>
    /\ filesOnDisk \cap VodPaths # {}
    /\ Cardinality(vods) = 2

\* The listing on request r has run its query, and no row matches it.
ListedNothing(r) ==
    /\ reqs[r].pc = "handler"
    /\ reqs'[r].pc = "done"
    /\ reqs'[r].status # 500
    /\ \/ reqs'[r].op = "listTeams" /\ teams = {}
       \/ reqs'[r].op = "listVods" /\ vods = {}
       \/ /\ reqs'[r].op = "listPlayers" /\ reqs'[r].arg # <<0>>
          /\ \A p \in players : <<p.team_id>> # reqs'[r].arg
       \/ /\ reqs'[r].op = "list" /\ reqs'[r].vod # 0
          /\ VodNotes(notes, reqs'[r].vod) = EmptyBag

\* C20: a listing whose well-formed query matches no row is answered 200
\* with an empty sequence.
C20_EmptyListingIsEmptySequence ==
    [][\A r \in Slots : ListedNothing(r) =>
          /\ reqs'[r].status = 200
          /\ reqs'[r].body = JsonArray(<<>>)]_vars

\* ------------------------------------------------- the claims on failures
\* The add-player request of slot r names a team and a player, and no row
\* of teams has the team's name.
NamesAbsentTeam(r, names) ==
    /\ TrimSpace(names[1]) # "" /\ TrimSpace(names[2]) # ""
    /\ \A t \in teams : t.name # TrimSpace(names[1])

\* C21: add-player with a team that is not in the catalog answers 404 "team
\* not found" (500 when the SELECT itself fails) and changes no row of teams
\* or players, no sequence and no directory.
C21_AbsentTeamNotFound ==
    [][\A r \in DOMAIN reqs :
        (/\ Routed(r, "/api/admin/add-player")
         /\ reqs'[r].op = "addPlayer" /\ reqs'[r].pc = "done"
         /\ reqs'[r].arg # <<>>
         /\ NamesAbsentTeam(r, reqs'[r].arg))
        => /\ reqs'[r].status \in {404, 500}
           /\ reqs'[r].status = 404 => reqs'[r].body = "team not found"
           /\ reqs'[r].status = 500 => reqs'[r].body = "db error"
           /\ UNCHANGED <<disk, teams, players, seq>>]_vars

\* The admin's add-player for the team V, which no row has, was answered 404.
C21_Witness ==
    \E r \in DOMAIN reqs :
        /\ reqs[r].op = "addPlayer" /\ reqs[r].pc = "done"
        /\ reqs[r].status = 404
        /\ reqs[r].arg = <<"V", "P">>
        /\ reqs[r].role = "admin"
        /\ \A t \in teams : t.name # "V"

\* C22: every note refers to a row of vods: an append or a replace that
\* names a recording id no row has stores nothing.
C22_NotesBelongToRecordings ==
    \A n \in BagToSet(notes) : \E v \in vods : v.id = n.vod_id

\* The step ends ScanStorage with the error of the walk or of a statement
\* of the callback.
WalkAborts == phase = "scan" /\ walkQueue # <<>> /\ phase' = "serve"

Row(table, id) == {x \in table : x.id = id}

TableAfter(name) ==
    IF name = "teams" THEN teams' ELSE IF name = "players" THEN players' ELSE vods'

\* C23: a failure in the walk ends the scan with the error: the rows there
\* were stay, those the failing callback had inserted stay, no entry is
\* visited after it and no recording is deleted, then or later in the
\* process.
C23_FailedScanStops ==
    [][/\ WalkAborts =>
            /\ scanResult' = "err" /\ walkQueue' = <<>>
            /\ teams \subseteq teams' /\ players \subseteq players' /\ vods \subseteq vods'
            /\ notes' = notes
            /\ \A i \in 1..Len(scanMuts') :
                    /\ scanMuts'[i].op = "insert"
                    /\ Row(TableAfter(scanMuts'[i].table), scanMuts'[i].id) # {}
       /\ (phase = "serve" /\ scanResult = "err" /\ phase' = "serve")
            => UNCHANGED <<catalogVars, scanResult>>]_vars

\* The scan has failed in a callback that had inserted a row, and the
\* catalog holds a recording whose file is not on disk.
C23_Witness ==
    /\ phase = "serve" /\ scanResult = "err" /\ treeFresh
    /\ scanMuts # <<>>
    /\ \E v \in vods : \A e \in disk : e.path # v.file_path

TeamNames(cat) == {t.name : t \in cat.teams}

PlayerPairs(cat) ==
    {<<t.name, p.name>> : <<t, p>> \in {x \in cat.teams \X cat.players : x[2].team_id = x[1].id}}

Paths(cat) == {v.file_path : v \in cat.vods}

NoDuplicates(cat) ==
    /\ Cardinality(Paths(cat)) = Cardinality(cat.vods)
    /\ Cardinality(TeamNames(cat)) = Cardinality(cat.teams)
    /\ Cardinality(PlayerPairs(cat)) = Cardinality(cat.players)

\* C24: when the scan before it aborted, a scan of the same tree that
\* returns nil leaves the paths, team names and (team, player) pairs that
\* one scan without a failure makes of the database the first process found,
\* each in one row.
C24_RecoveryScanEqualsCleanScan ==
    [][(phase = "scan" /\ scanResult = "err" /\ phase' = "serve" /\ scanResult' = "ok")
        => LET clean == ScanStorage(LeftBehind(disk), disk)
           IN  /\ Paths(Catalog') = Paths(clean)
               /\ TeamNames(Catalog') = TeamNames(clean)
               /\ PlayerPairs(Catalog') = PlayerPairs(clean)
               /\ NoDuplicates(Catalog')]_vars

\* C25: in a process the scan runs first and once: while it runs no request
\* is accepted or handled and the walk only advances; requests are handled
\* only after it has returned nil or an error, and it is not called again
\* before the process ends.
C25_ScanOnceBeforeServing ==
    [][/\ phase = "scan" =>
            /\ \A r \in DOMAIN reqs : reqs[r].pc = "idle" /\ reqs'[r].pc = "idle"
            /\ phase' = "scan" => Len(walkQueue') = Len(walkQueue) - 1
            /\ phase' = "serve" => scanResult' \in {"ok", "err"}
       /\ reqs' # reqs =>
            /\ phase = "serve" /\ scanResult \in {"ok", "err"}
            /\ UNCHANGED scanVars
       /\ (phase = "serve" /\ phase' = "scan") =>
            /\ \A r \in DOMAIN reqs : reqs[r].pc = "idle"
            /\ walkQueue' = Walk(disk)]_vars

\* A handler has answered a request of a process whose scan had failed.
C25_Witness ==
    /\ phase = "serve" /\ scanResult = "err"
    /\ \E r \in DOMAIN reqs : reqs[r].pc = "done" /\ reqs[r].status = 200

\* A row of vods whose path the walk of the tree does not record.
Stale(v) == v.file_path \notin SeenOnDisk(disk)

\* C26: ScanStorage does not return nil while a stale recording is left: a
\* DELETE or a row read that fails in the removal phase is returned.
C26_NoSuccessWithStaleRow ==
    ScanReturnedOk => \A v \in vods : ~Stale(v)

\* C30: no step of the scan deletes or changes a row of teams or players.
C30_ScanKeepsTeamsAndPlayers ==
    [][phase = "scan" => teams \subseteq teams' /\ players \subseteq players']_vars

\* The removal phase has deleted the last recording of a player whose
\* directory is gone from the disk; the player and its team are still there.
C30_Witness ==
    /\ phase = "serve" /\ scanResult = "ok"
    /\ \E i \in 1..Len(scanMuts) : scanMuts[i].op = "delete"
    /\ \E p \in players, t \in teams :
        /\ p.team_id = t.id /\ t.name = "T" /\ p.name = "P"
        /\ \A v \in vods : v.player_id # p.id
        /\ \A e \in disk : Len(e.path.dirs) < 3 \/ e.path.dirs[3] # "T"

\* ------------------------------------------------ the claims on authorship
\* The notes of every author but this one.
NotesOfOthers(db, author) == KeepRows(db, {n \in BagToSet(db) : n.user_id # author})

\* Slot r takes a step of the handler of an append, a replace or a clear.
NotesStep(r) ==
    /\ reqs[r].pc \notin {"idle", "done"}
    /\ reqs'[r] # reqs[r]
    /\ reqs'[r].op \in {"addNote", "save", "deleteNotes"}

\* C27: a step of an append, replace or clear that came with the token of
\* user A leaves the notes of every other author as they are; what it
\* writes has A as author.
C27_AuthorIsTokenSubject ==
    [][\A r \in Slots : NotesStep(r) =>
          /\ NotesOfOthers(notes', Subject(reqs[r])) = NotesOfOthers(notes, Subject(reqs[r]))
          /\ reqs'[r].user = Subject(reqs[r])]_vars

\* The coach has cleared the notes of vod 2 and has notes of its own; the
\* admin's note on vod 2 is still there.
C27_Witness ==
    \E r \in Slots :
        /\ reqs[r].op = "deleteNotes" /\ reqs[r].pc = "done" /\ reqs[r].status = 200
        /\ Subject(reqs[r]) = 2 /\ reqs[r].vod = 2
        /\ PairNotes(notes, 2, 1) # EmptyBag
        /\ \E n \in BagToSet(notes) : n.user_id = 2

\* The replace of slot r is at its COMMIT; it came from the browser and its
\* notes are those the recording holds.
SendsBackListed(r) ==
    /\ reqs[r].op = "save" /\ reqs[r].pc = "commit"
    /\ reqs[r].arg # <<>>
    /\ SeqToBag(reqs[r].items) = ProjectRows(reqs[r].old)

\* C28: a replace that sends back the notes listed for a recording leaves
\* the recording with those notes: as many, with the same offsets and
\* contents.
C28_RoundTripKeepsNotes ==
    [][\A r \in Slots :
          (SendsBackListed(r) /\ reqs'[r].pc = "done" /\ reqs'[r].status = 200)
          => ProjectRows(VodNotes(notes', reqs[r].vod)) = ProjectRows(reqs[r].old)]_vars

\* The browser has made its last edit of the panel and the requests of it
\* and of the edit before it have both been answered "saved".
EditsSaved(last, before) ==
    /\ last # before
    /\ page.edits = MaxEdits
    /\ \A r \in {last, before} :
        /\ reqs[r].op = "save" /\ reqs[r].pc = "done" /\ reqs[r].status = 200
        /\ reqs[r].arg # <<>>
        /\ reqs[r].vod = page.vod /\ reqs[r].hdr = page.hdr
    /\ reqs[last].arg[2] = page.edits
    /\ reqs[before].arg[2] = page.edits - 1

\* C29 as claimed: once the requests of the edits are answered, the pair
\* holds the notes of the last edit that are not blank, in whatever order
\* the requests were handled.
C29_LatestEditWins ==
    \A last \in Slots, before \in Slots :
        EditsSaved(last, before)
            => PairNotes(notes, page.vod, reqs[last].user) = ExpectedOf(reqs[last])

\* C29, amended: once the requests of the edits are answered, the pair
\* holds the notes that are not blank of the edit whose request committed
\* last; the request of the last edit carries the notes of the panel.
C29_LastCommittedEditWins ==
    \A last \in Slots, before \in Slots :
        EditsSaved(last, before)
            => /\ lastCommit \in {last, before}
               /\ PairNotes(notes, page.vod, reqs[last].user) = ExpectedOf(reqs[lastCommit])
               /\ reqs[last].items = CardNotes(page.cards)

\* The request of the edit before the last committed after that of the
\* last edit, and the pair holds other notes than the panel shows.
C29_Witness ==
    \E last \in Slots, before \in Slots :
        /\ EditsSaved(last, before)
        /\ lastCommit = before
        /\ PairNotes(notes, page.vod, reqs[last].user) # ExpectedOf(reqs[last])

====
